---- MODULE Spec2Model ----
(***************************************************************************)
(* The Stripe webhook pipeline of survival-signals-webhook (src/app.py):   *)
(* POST /webhook/stripe is verified, deduplicated against the in-memory    *)
(* set processed_events, classified by event type and dispatched to the    *)
(* Telegram helpers.  Flask serves requests on concurrent threads, so the  *)
(* handler is modelled line by line for a pool of workers that share       *)
(* processed_events and nothing else.  send_signal, the admin channel      *)
(* notifier (src/notify_signals.py), is modelled with its retry loop; Spec *)
(* takes its calls as one step each, SoloSpec runs the loop inside one     *)
(* request.                                                                *)
(***************************************************************************)
EXTENDS Integers, Sequences, FiniteSets, TLC

\* ---------------------------------------------------------------- bounds
\* Distinct Stripe event ids in play.
NumEventIds == 2
EventIds == 1..NumEventIds

\* Two request threads at a time: the dedup race and every "earlier / later
\* delivery" relation concern a pair of requests.  A thread that has
\* answered serves the next request, so the number of deliveries is not
\* bounded.
Workers == {"w1", "w2"}

\* A Telegram user id as carried in metadata (the handler only tests it for
\* truth and passes it on).  None stands for a missing or empty (falsy)
\* telegram_user_id.
Ids == {42}
None == 0

\* ------------------------------------------------------------ event kinds
GrantKinds == {"checkout.session.completed", "checkout.session.async_payment_succeeded"}

\* The kinds the if/elif chain of the handler has a branch for.
HandledKinds == GrantKinds \cup
    {"invoice.paid", "invoice.payment_failed",
     "customer.subscription.updated", "customer.subscription.deleted"}

\* charge.refunded stands for every kind without a branch.
Kinds == HandledKinds \cup {"charge.refunded"}

\* The statuses app.py:512 revokes for; "active" stands for every other
\* status (past_due, trialing, ...), which the handler does not tell apart.
RevokeStatuses == {"canceled", "unpaid"}
Statuses == RevokeStatuses \cup {"active"}

\* The payloads Stripe can send: id, type and the fields of data.object the
\* handler reads.  Fields a kind never reads are fixed, so that two events
\* differ only in what the handler can observe.
\*   meta     : data.object.metadata.telegram_user_id (None when absent)
\*   status   : data.object.status (read for customer.subscription.updated)
\*   customer : invoice.customer is set (read for invoice.paid)
\*   sub      : the referenced subscription id is set (session.subscription
\*              for checkout, parent.subscription_details.subscription for
\*              invoice.paid)
Events ==
    { e \in [id : EventIds, kind : Kinds, meta : Ids \cup {None},
             status : Statuses, customer : BOOLEAN, sub : BOOLEAN] :
        /\ (e.kind # "customer.subscription.updated" => e.status = "active")
        /\ (e.kind # "invoice.paid" => e.customer = FALSE)
        /\ (e.kind \notin GrantKinds \cup {"invoice.paid"} => e.sub = FALSE) }

NoEvent == [id |-> 0, kind |-> "", meta |-> None, status |-> "",
            customer |-> FALSE, sub |-> FALSE]

\* The invite links createChatInviteLink can return (data.result.invite_link,
\* app.py:109); NoLink is the link field of a call that carries none.
Links == {"l1", "l2"}
NoLink == ""

\* -------------------------------------------------- send_signal, the sink
\* max_retries, the default of send_signal (notify_signals.py:47).
max_retries == 3

\* HTTP statuses the Telegram API can answer the sendMessage POST with.
StatusCodes == {200, 400, 429, 499, 500, 503}

\* What one requests.post of send_signal can come to: an exception (exc), or
\* a response with its status and the "ok" member of its JSON body.
Replies ==
    { r \in [exc : {"", "Timeout", "RequestException"},
             status_code : StatusCodes \cup {0}, ok : BOOLEAN] :
        /\ (r.exc # "" <=> r.status_code = 0)
        /\ (r.ok => r.status_code = 200) }

NoReply == [exc |-> "", status_code |-> 0, ok |-> FALSE]

VARIABLES
    processed_events,   \* the idempotency store, app.py:65
    pc,                 \* per worker: the handler line it is about to run
    sigok,              \* per worker: the request's signature verifies
    event,              \* per worker: the constructed event (NoEvent before)
    tg,                 \* per worker: the local tg
    calls,              \* per worker: the outbound calls made, in order
    resp,               \* per worker: HTTP status answered (0: not yet)
    verified,           \* history: the ids of the events constructed so far
                        \* from a request whose signature verified
    returned,           \* history: the ids already_processed has returned for
    sink_pc,            \* send_signal: "idle", "post" (in the loop), "returned"
    attempt,            \* send_signal: the loop variable of notify_signals.py:74
    posts,              \* send_signal: requests.post calls made by this call
    reply,              \* send_signal: what the last requests.post came to
    sent,               \* send_signal: the value returned
    TG_BOT_TOKEN,       \* the credential as configured (a string of characters)
    bare,               \* history: the bare token the credential was made from
    computed,           \* which copies of get_bot_token have returned
    app_token,          \* what get_bot_token of app.py returned
    signals_token,      \* what get_bot_token of notify_signals.py returned
    trade,              \* notify_on_trade: what stands on STDIN
    trade_pc,           \* notify_on_trade: the line the script is about to run
    exit_status,        \* notify_on_trade: the exit status of the process
    success_logged      \* notify_on_trade: "Signal sent successfully" was logged

\* The state of the send_signal call in progress.
sink == <<sink_pc, attempt, posts, reply, sent>>

\* The credential and its two normalisations.
cred == <<TG_BOT_TOKEN, bare, computed, app_token, signals_token>>

\* The run of the notify_on_trade script.
script == <<trade, trade_pc, exit_status, success_logged>>

\* What the webhook handler never touches.
aside == <<cred, script>>

vars == <<processed_events, pc, sigok, event, tg, calls, resp, verified, returned, sink, aside>>

\* ------------------------------------------------------------ call log
\* id: the Telegram id the call is made for, or the one a lookup returned.
Call(op, id, text, ok) ==
    [op |-> op, id |-> id, text |-> text, ok |-> ok, link |-> NoLink]

\* A call that returns or passes on an invite link: create_one_time_invite
\* returns it, send_dm carries it in its text (app.py:438, 481).
LinkCall(op, id, text, ok, l) == [Call(op, id, text, ok) EXCEPT !.link = l]

\* A send_signal(text) call of the handler that returned True
\* (notify_signals.py:47): Spec takes every call of send_signal so, since
\* the handler discards the boolean at every call site.
Signal(id, text) == Call("send_signal", id, text, TRUE)

GatewayOps == {"create_invite", "send_dm", "ban", "unban"}
LookupOps == {"customer_retrieve", "subscription_retrieve", "invoice_list", "invoice_modify"}

CallsOf(w, ops) == {i \in 1..Len(calls[w]) : calls[w][i].op \in ops}
GatewayCalls(w) == CallsOf(w, GatewayOps)
InviteFailed(w) ==
    \E i \in 1..Len(calls[w]) : calls[w][i].op = "create_invite" /\ ~calls[w][i].ok

\* No request is in, and nobody is inside send_signal.
HandlerInit ==
    /\ processed_events = {}
    /\ pc = [w \in Workers |-> "idle"]
    /\ sigok = [w \in Workers |-> FALSE]
    /\ event = [w \in Workers |-> NoEvent]
    /\ tg = [w \in Workers |-> None]
    /\ calls = [w \in Workers |-> <<>>]
    /\ resp = [w \in Workers |-> 0]
    /\ verified = {}
    /\ returned = {}
    /\ sink_pc = "idle"
    /\ attempt = 0
    /\ posts = 0
    /\ reply = NoReply
    /\ sent = FALSE

\* get_bot_token has not been called.
NoneComputed ==
    /\ computed = {}
    /\ app_token = <<>>
    /\ signals_token = <<>>

\* The notify_on_trade script is not running.
NoTrade == [json |-> FALSE, object |-> FALSE, side |-> "absent", pair |-> FALSE]

ScriptIdle ==
    /\ trade = NoTrade
    /\ trade_pc = "idle"
    /\ exit_status = 0
    /\ success_logged = FALSE

Init ==
    /\ HandlerInit
    /\ TG_BOT_TOKEN = <<>>
    /\ bare = <<>>
    /\ NoneComputed
    /\ ScriptIdle

\* ------------------------------------------------------ handler plumbing
Push(w, c) == Append(calls[w], c)

\* The handler moves on to line `next`, having made the calls cs.
Step(w, next, cs) ==
    /\ pc' = [pc EXCEPT ![w] = next]
    /\ calls' = [calls EXCEPT ![w] = cs]
    /\ UNCHANGED resp

\* A dispatched request is answered with HTTP status code: the final
\* `return '', 200` (app.py:546), or Flask's 500 for an exception that
\* leaves the view function.
Answer(w, code, cs) ==
    /\ pc' = [pc EXCEPT ![w] = "responded"]
    /\ resp' = [resp EXCEPT ![w] = code]
    /\ calls' = [calls EXCEPT ![w] = cs]

\* "end" is the fall-through to the final return.
Goto(w, next, cs) ==
    IF next = "end" THEN Answer(w, 200, cs) ELSE Step(w, next, cs)

\* A request answered before dispatch (bad signature, duplicate).
Reply(w, code) ==
    /\ pc' = [pc EXCEPT ![w] = "responded"]
    /\ resp' = [resp EXCEPT ![w] = code]
    /\ UNCHANGED calls

\* ------------------------------------------------ verify and deduplicate
\* Verify without the abort: the request goes on whatever construct_event
\* said.
VerifyNoGate(w) ==
    /\ pc[w] = "idle"
    /\ \E e \in Events, s \in BOOLEAN :
        /\ event' = [event EXCEPT ![w] = e]
        /\ sigok' = [sigok EXCEPT ![w] = s]
        /\ verified' = IF s THEN verified \cup {e.id} ELSE verified
        /\ pc' = [pc EXCEPT ![w] = "dedupe"]
    /\ UNCHANGED <<processed_events, tg, resp, calls, returned, sink, aside>>

\* Verify with the id recorded before the signature is checked.
VerifyMarksFirst(w) ==
    /\ pc[w] = "idle"
    /\ \E e \in Events, s \in BOOLEAN :
        /\ event' = [event EXCEPT ![w] = e]
        /\ sigok' = [sigok EXCEPT ![w] = s]
        /\ verified' = IF s THEN verified \cup {e.id} ELSE verified
        /\ processed_events' = processed_events \cup {e.id}
        /\ IF s THEN /\ pc' = [pc EXCEPT ![w] = "mark"]
                     /\ UNCHANGED <<resp, calls>>
                ELSE Reply(w, 400)
    /\ UNCHANGED <<tg, returned, sink, aside>>

\* app.py:411-420: read the body and the Stripe-Signature header and
\* construct the event; any failure aborts with 400.
Verify(w) ==
    /\ pc[w] = "idle"
    /\ \E e \in Events, s \in BOOLEAN :
        /\ event' = [event EXCEPT ![w] = e]
        /\ sigok' = [sigok EXCEPT ![w] = s]
        /\ verified' = IF s THEN verified \cup {e.id} ELSE verified
        /\ IF s THEN /\ pc' = [pc EXCEPT ![w] = "dedupe"]
                     /\ UNCHANGED <<resp, calls>>
                ELSE Reply(w, 400)
    /\ UNCHANGED <<processed_events, tg, returned, sink, aside>>

\* Check with the event reported to the admin channel before the ledger
\* is consulted, as if app.py:425-427 stood above 422.
CheckSignalsFirst(w) ==
    /\ pc[w] = "dedupe"
    /\ IF event[w].id \in processed_events
       THEN /\ Answer(w, 200, Push(w, Signal(None, "event")))
            /\ returned' = returned \cup {event[w].id}
       ELSE /\ Step(w, "mark", Push(w, Signal(None, "event")))
            /\ UNCHANGED returned
    /\ UNCHANGED <<processed_events, sigok, event, tg, verified, sink, aside>>

\* app.py:68-70 and 422-423: the membership test of already_processed; a
\* known id returns True and the handler answers 200 at once.
Check(w) ==
    /\ pc[w] = "dedupe"
    /\ IF event[w].id \in processed_events
       THEN /\ Reply(w, 200)
            /\ returned' = returned \cup {event[w].id}
       ELSE /\ pc' = [pc EXCEPT ![w] = "mark"]
            /\ UNCHANGED <<resp, calls, returned>>
    /\ UNCHANGED <<processed_events, sigok, event, tg, verified, sink, aside>>

\* Mark without the add.
MarkNoAdd(w) ==
    /\ pc[w] = "mark"
    /\ pc' = [pc EXCEPT ![w] = "signal"]
    /\ returned' = returned \cup {event[w].id}
    /\ UNCHANGED <<processed_events, sigok, event, tg, calls, resp, verified, sink, aside>>

\* Mark with the set rebuilt from the new id instead of extended by it.
MarkReplaces(w) ==
    /\ pc[w] = "mark"
    /\ processed_events' = {event[w].id}
    /\ pc' = [pc EXCEPT ![w] = "signal"]
    /\ returned' = returned \cup {event[w].id}
    /\ UNCHANGED <<sigok, event, tg, calls, resp, verified, sink, aside>>

\* app.py:71-73: the id is added and already_processed returns False.
Mark(w) ==
    /\ pc[w] = "mark"
    /\ processed_events' = processed_events \cup {event[w].id}
    /\ pc' = [pc EXCEPT ![w] = "signal"]
    /\ returned' = returned \cup {event[w].id}
    /\ UNCHANGED <<sigok, event, tg, calls, resp, verified, sink, aside>>

\* --------------------------------------------------------- classification
\* AfterSub without the `if tg:` of app.py:478.
AfterSubNoGuard(t) == "ip_invite"

\* app.py:478: with the identity t the fallbacks ended on.
AfterSub(t) == IF t # None THEN "ip_invite" ELSE "end"

\* NeedsSubLookup without the `not tg` of app.py:469.
NeedsSubLookupAlways(e, t) == e.sub

\* app.py:468-469
NeedsSubLookup(e, t) == t = None /\ e.sub

AfterCust(e, t) == IF NeedsSubLookup(e, t) THEN "ip_sub" ELSE AfterSub(t)

\* NeedsCustLookup without the `not tg` of app.py:459.
NeedsCustLookupAlways(e, t) == e.customer

\* app.py:459
NeedsCustLookup(e, t) == t = None /\ e.customer

\* Revokes without the status test of app.py:512.
RevokesAnyStatus(e) ==
    e.kind \in {"invoice.payment_failed", "customer.subscription.updated",
                "customer.subscription.deleted"}

\* app.py:512
Revokes(e) ==
    CASE e.kind = "customer.subscription.updated" -> e.status \in RevokeStatuses
      [] e.kind \in {"invoice.payment_failed", "customer.subscription.deleted"} -> TRUE
      [] OTHER -> FALSE

\* Entry with the last `elif` of the chain written as `else`.
EntryElse(e) ==
    CASE e.kind \in GrantKinds ->
            IF e.meta # None THEN "co_invite" ELSE "end"
      [] e.kind = "invoice.paid" ->
            IF NeedsCustLookup(e, e.meta) THEN "ip_cust" ELSE AfterCust(e, e.meta)
      [] e.kind \in {"invoice.payment_failed", "customer.subscription.updated"} ->
            IF e.meta # None /\ Revokes(e) THEN "rv_dm" ELSE "end"
      [] OTHER -> IF e.meta # None THEN "rv_dm" ELSE "end"

\* app.py:430-532: the if/elif chain on the event type, up to the first
\* outbound call of the matching branch.
Entry(e) ==
    CASE e.kind \in GrantKinds ->
            IF e.meta # None THEN "co_invite" ELSE "end"
      [] e.kind = "invoice.paid" ->
            IF NeedsCustLookup(e, e.meta) THEN "ip_cust" ELSE AfterCust(e, e.meta)
      [] e.kind \in {"invoice.payment_failed", "customer.subscription.updated",
                     "customer.subscription.deleted"} ->
            IF e.meta # None /\ Revokes(e) THEN "rv_dm" ELSE "end"
      [] OTHER -> "end"

\* What no dispatch step changes.
Kept == <<processed_events, sigok, event, verified, returned, aside>>
Local == <<Kept, sink>>

\* EventSignalled with a send_signal failure leaving the view function, as
\* if app.py:427 let it propagate.
EventSignalPropagates(w, c) ==
    /\ pc[w] = "signal"
    /\ IF c.ok THEN Goto(w, Entry(event[w]), Push(w, c))
               ELSE Answer(w, 500, Push(w, c))
    /\ tg' = [tg EXCEPT ![w] = IF event[w].kind \in HandledKinds
                                THEN event[w].meta ELSE None]
    /\ UNCHANGED Kept

\* app.py:425-427, then the branch selection: send_signal has reported the
\* event type to the admin channel (c is that call; its value is dropped),
\* and the matching branch reads tg from the metadata of data.object
\* (app.py:432, 455, 489, 508, 529).
EventSignalled(w, c) ==
    /\ pc[w] = "signal"
    /\ Goto(w, Entry(event[w]), Push(w, c))
    /\ tg' = [tg EXCEPT ![w] = IF event[w].kind \in HandledKinds
                                THEN event[w].meta ELSE None]
    /\ UNCHANGED Kept

\* EventSignal with the notification moved into the branches, so that only
\* the kinds the chain handles are reported.
EventSignalOnlyHandled(w) ==
    /\ pc[w] = "signal"
    /\ Goto(w, Entry(event[w]),
            IF event[w].kind \in HandledKinds
            THEN Push(w, Signal(None, "event")) ELSE calls[w])
    /\ tg' = [tg EXCEPT ![w] = IF event[w].kind \in HandledKinds
                                THEN event[w].meta ELSE None]
    /\ UNCHANGED <<Kept, sink>>

EventSignal(w) == EventSignalled(w, Signal(None, "event")) /\ UNCHANGED sink

\* The request is over and its thread serves the next one.
Finish(w) ==
    /\ pc[w] = "responded"
    /\ pc' = [pc EXCEPT ![w] = "idle"]
    /\ sigok' = [sigok EXCEPT ![w] = FALSE]
    /\ event' = [event EXCEPT ![w] = NoEvent]
    /\ tg' = [tg EXCEPT ![w] = None]
    /\ calls' = [calls EXCEPT ![w] = <<>>]
    /\ resp' = [resp EXCEPT ![w] = 0]
    /\ UNCHANGED <<processed_events, verified, returned, sink, aside>>

\* ------------------------------------------------------- granting calls
\* app.py:100-111 create_one_time_invite(): it returns the link of the
\* response, or raises on an HTTP error status and on an "ok": false body
\* (l = NoLink).
InviteCall(l) == LinkCall("create_invite", None, "", l # NoLink, l)

\* link read from a module-level cache instead of the call just made.
StaleLink(w) == "l1"

\* The local `link` (app.py:437, 480) when send_dm is reached: what the
\* create_one_time_invite call just made returned.
link(w) == calls[w][Len(calls[w])].link

\* ------------------------------------------------------- checkout branch
\* app.py:437 create_one_time_invite(); the except at 447 logs its failure.
CheckoutInvite(w) ==
    /\ pc[w] = "co_invite"
    /\ \E l \in Links \cup {NoLink} :
        Goto(w, IF l # NoLink THEN "co_dm" ELSE "end", Push(w, InviteCall(l)))
    /\ UNCHANGED <<Local, tg>>

\* app.py:438-441 send_dm(tg, invite link), then sess.get('subscription').
CheckoutDm(w) ==
    /\ pc[w] = "co_dm"
    /\ \E ok \in BOOLEAN :
        Goto(w, IF ok /\ event[w].sub THEN "co_list" ELSE "end",
             Push(w, LinkCall("send_dm", tg[w], "invite", ok, link(w))))
    /\ UNCHANGED <<Local, tg>>

\* app.py:442-443 stripe.Invoice.list: it fails, returns no invoice, or one.
CheckoutInvoiceList(w) ==
    /\ pc[w] = "co_list"
    /\ \E r \in {"failed", "empty", "found"} :
        Goto(w, IF r = "found" THEN "co_modify" ELSE "end",
             Push(w, Call("invoice_list", None, r, r # "failed")))
    /\ UNCHANGED <<Local, tg>>

\* app.py:444-448 stripe.Invoice.modify patches the invoice metadata.
CheckoutInvoiceModify(w) ==
    /\ pc[w] = "co_modify"
    /\ \E ok \in BOOLEAN :
        Goto(w, "end", Push(w, Call("invoice_modify", tg[w], "", ok)))
    /\ UNCHANGED <<Local, tg>>

\* --------------------------------------------------- invoice.paid branch
\* app.py:460-466 stripe.Customer.retrieve: on success tg becomes the
\* customer's telegram_user_id (possibly absent), on failure tg is kept.
PaidCustomerLookup(w) ==
    /\ pc[w] = "ip_cust"
    /\ \E ok \in BOOLEAN, v \in Ids \cup {None} :
        /\ (~ok => v = None)
        /\ LET t == IF ok THEN v ELSE tg[w] IN
            /\ tg' = [tg EXCEPT ![w] = t]
            /\ Goto(w, AfterCust(event[w], t), Push(w, Call("customer_retrieve", v, "", ok)))
    /\ UNCHANGED Local

\* app.py:470-476 stripe.Subscription.retrieve, likewise.
PaidSubscriptionLookup(w) ==
    /\ pc[w] = "ip_sub"
    /\ \E ok \in BOOLEAN, v \in Ids \cup {None} :
        /\ (~ok => v = None)
        /\ LET t == IF ok THEN v ELSE tg[w] IN
            /\ tg' = [tg EXCEPT ![w] = t]
            /\ Goto(w, AfterSub(t), Push(w, Call("subscription_retrieve", v, "", ok)))
    /\ UNCHANGED Local

\* app.py:480 create_one_time_invite() inside the try of 479.
PaidInvite(w) ==
    /\ pc[w] = "ip_invite"
    /\ \E l \in Links \cup {NoLink} :
        Goto(w, IF l # NoLink THEN "ip_dm" ELSE "ip_err", Push(w, InviteCall(l)))
    /\ UNCHANGED <<Local, tg>>

\* app.py:481 send_dm(tg, renewal invite link).
PaidDm(w) ==
    /\ pc[w] = "ip_dm"
    /\ \E ok \in BOOLEAN :
        Goto(w, IF ok THEN "end" ELSE "ip_err",
             Push(w, LinkCall("send_dm", tg[w], "renewal", ok, link(w))))
    /\ UNCHANGED <<Local, tg>>

\* app.py:482-484 the except: send_signal("Renewal invite error").
PaidErrorSignalled(w, c) ==
    /\ pc[w] = "ip_err"
    /\ Goto(w, "end", Push(w, c))
    /\ UNCHANGED <<Kept, tg>>

PaidErrorSignal(w) ==
    PaidErrorSignalled(w, Signal(None, "renewal_error")) /\ UNCHANGED sink

\* ---------------------------------------------------- revoking branches
\* The texts of the three branches (app.py:492/498, 514/520, 534/540).
NoticeText(e) ==
    CASE e.kind = "invoice.payment_failed" -> "payment_failed"
      [] e.kind = "customer.subscription.updated" -> "subscription_ended"
      [] OTHER -> "subscription_deleted"

\* What follows a send_dm that raised at app.py:492, 514 or 534: the call
\* stands outside every try, so the exception leaves the view function.
NoticeFailed(w, cs) == Answer(w, 500, cs)

\* app.py:492, 514, 534 send_dm(tg, notice).
RevokeNotice(w) ==
    /\ pc[w] = "rv_dm"
    /\ \E ok \in BOOLEAN :
        LET cs == Push(w, Call("send_dm", tg[w], NoticeText(event[w]), ok)) IN
        IF ok THEN Step(w, "rv_ban", cs) ELSE NoticeFailed(w, cs)
    /\ UNCHANGED <<Local, tg>>

\* app.py:146-156 remove_from_telegram_group: banChatMember; an HTTP
\* error, an "ok": false body or an exception makes it return False, and
\* the handler then falls through to the final return.
RevokeBan(w) ==
    /\ pc[w] = "rv_ban"
    /\ \E ok \in BOOLEAN :
        Goto(w, IF ok THEN "rv_unban" ELSE "end", Push(w, Call("ban", tg[w], "", ok)))
    /\ UNCHANGED <<Local, tg>>

\* app.py:159-174 unbanChatMember: its response is logged, never checked
\* ("error" still returns True); only an exception of requests.post
\* ("raised") is caught at 172 and returns False.
RevokeUnban(w) ==
    /\ pc[w] = "rv_unban"
    /\ \E r \in {"ok", "error", "raised"} :
        Goto(w, IF r = "raised" THEN "end" ELSE "rv_dm2",
             Push(w, Call("unban", tg[w], r, r = "ok")))
    /\ UNCHANGED <<Local, tg>>

\* app.py:498, 520, 540 send_dm(tg, removal confirmation), inside the try.
RevokeConfirm(w) ==
    /\ pc[w] = "rv_dm2"
    /\ \E ok \in BOOLEAN :
        Goto(w, IF ok THEN "rv_sig" ELSE "rv_err", Push(w, Call("send_dm", tg[w], "removed", ok)))
    /\ UNCHANGED <<Local, tg>>

\* app.py:499, 521, 541 send_signal("User ... removed from group").
RevokeSignalled(w, c) ==
    /\ pc[w] = "rv_sig"
    /\ Goto(w, "end", Push(w, c))
    /\ UNCHANGED <<Kept, tg>>

RevokeSignal(w) ==
    RevokeSignalled(w, Signal(tg[w], "removed")) /\ UNCHANGED sink

\* app.py:500-502, 522-524, 542-544 the except: send_signal("Error removing").
RevokeErrorSignalled(w, c) ==
    /\ pc[w] = "rv_err"
    /\ Goto(w, "end", Push(w, c))
    /\ UNCHANGED <<Kept, tg>>

RevokeErrorSignal(w) ==
    RevokeErrorSignalled(w, Signal(tg[w], "remove_error")) /\ UNCHANGED sink

\* ----------------------------------------------------- inside send_signal
\* The lines of the handler that call send_signal.
SignalLines == {"signal", "ip_err", "rv_sig", "rv_err"}

\* The message passed at the line w stands on (app.py:427, 484, 499/521/541,
\* 502/524/544) and the Telegram id it names; every one is an f-string with
\* literal text, never empty.
SignalText(w) ==
    CASE pc[w] = "signal" -> "event"
      [] pc[w] = "ip_err" -> "renewal_error"
      [] pc[w] = "rv_sig" -> "removed"
      [] OTHER -> "remove_error"

SignalId(w) == IF pc[w] \in {"rv_sig", "rv_err"} THEN tg[w] ELSE None

\* The call of send_signal that has just returned `sent`.
Reported(w) == Call("send_signal", SignalId(w), SignalText(w), sent)

\* notify_signals.py:78 resp.ok: a response with a status below 400.
Delivered(r) == r.exc = "" /\ r.status_code < 400

\* notify_signals.py:85 a client error other than 429 Too Many Requests.
NoRetry(r) ==
    r.exc = "" /\ 400 =< r.status_code /\ r.status_code < 500 /\ r.status_code # 429

\* The loop with one iteration too many.
MoreAttemptsInclusive(a) == a + 1 =< max_retries

\* notify_signals.py:74 range(max_retries): another iteration follows a.
MoreAttempts(a) == a + 1 < max_retries

\* The loop variable never advanced.
NextAttemptStuck(a) == a

\* notify_signals.py:74 the next value of the loop variable.
NextAttempt(a) == a + 1

\* posts counts up to one past max_retries and no further.
PostsCap == max_retries + 1

\* notify_signals.py:59-72 the call is entered: an empty message returns
\* False at once, any other goes to the loop.
SignalEnter(w) ==
    /\ pc[w] \in SignalLines
    /\ sink_pc = "idle"
    /\ IF SignalText(w) = ""
       THEN sink_pc' = "returned"
       ELSE sink_pc' = "post"
    /\ attempt' = 0
    /\ posts' = 0
    /\ reply' = NoReply
    /\ sent' = FALSE
    /\ UNCHANGED <<Kept, pc, tg, calls, resp>>

\* notify_signals.py:74-97 one iteration: requests.post, then return True
\* on resp.ok, return False on a client error other than 429, and otherwise
\* (429, 5xx, Timeout, RequestException) sleep and go round again, or fall
\* out of the loop to `return False` after the last iteration.
SignalAttempt ==
    /\ sink_pc = "post"
    /\ \E r \in Replies :
        /\ reply' = r
        /\ posts' = IF posts < PostsCap THEN posts + 1 ELSE posts
        /\ IF Delivered(r)
           THEN /\ sent' = TRUE
                /\ sink_pc' = "returned"
                /\ UNCHANGED attempt
           ELSE /\ sent' = FALSE
                /\ IF ~NoRetry(r) /\ MoreAttempts(attempt)
                   THEN /\ attempt' = NextAttempt(attempt)
                        /\ sink_pc' = "post"
                   ELSE /\ sink_pc' = "returned"
                        /\ UNCHANGED attempt
    /\ UNCHANGED <<Kept, pc, tg, calls, resp>>

\* send_signal is left: its state is gone with its frame.
SignalLeft ==
    /\ sink_pc' = "idle"
    /\ attempt' = 0
    /\ posts' = 0
    /\ reply' = NoReply
    /\ sent' = FALSE

\* The handler goes on from each of its send_signal lines with the call
\* that returned.
EventSignalReturn(w) ==
    sink_pc = "returned" /\ EventSignalled(w, Reported(w)) /\ SignalLeft

PaidErrorSignalReturn(w) ==
    sink_pc = "returned" /\ PaidErrorSignalled(w, Reported(w)) /\ SignalLeft

RevokeSignalReturn(w) ==
    sink_pc = "returned" /\ RevokeSignalled(w, Reported(w)) /\ SignalLeft

RevokeErrorSignalReturn(w) ==
    sink_pc = "returned" /\ RevokeErrorSignalled(w, Reported(w)) /\ SignalLeft

\* ------------------------------------------------------- specification
Next ==
    \E w \in Workers :
        \/ Verify(w)
        \/ Check(w)
        \/ Mark(w)
        \/ EventSignal(w)
        \/ CheckoutInvite(w)
        \/ CheckoutDm(w)
        \/ CheckoutInvoiceList(w)
        \/ CheckoutInvoiceModify(w)
        \/ PaidCustomerLookup(w)
        \/ PaidSubscriptionLookup(w)
        \/ PaidInvite(w)
        \/ PaidDm(w)
        \/ PaidErrorSignal(w)
        \/ RevokeNotice(w)
        \/ RevokeBan(w)
        \/ RevokeUnban(w)
        \/ RevokeConfirm(w)
        \/ RevokeSignal(w)
        \/ RevokeErrorSignal(w)
        \/ Finish(w)

Spec == Init /\ [][Next]_vars

\* ------------------------------------------------------- get_bot_token
\* Strings are sequences of characters.  The bare tokens in play; a Telegram
\* bot token is "<digits>:<letters and digits>", so none starts with "bot"
\* or "http".
BareTokens ==
    { <<"1">>, <<"1", ":", "A">>, <<"2", ":", "a", "B">>, <<"2", ":", "T", "1">> }

\* The marker some store in front of the token, in the cases lower() folds.
Markers == { <<"b", "o", "t">>, <<"B", "o", "t">>, <<"B", "O", "T">> }

Schemes == { <<"h", "t", "t", "p">>, <<"h", "t", "t", "p", "s">> }

\* What follows the token in a full API URL: nothing, or a method segment.
Tails == { <<>>, <<"/", "m">> }

\* The shapes the credential of token t is configured in: bare, with the
\* marker, or as the API URL scheme://host/bot<t>[/method].
Credentials(t) ==
    {t}
    \cup {m \o t : m \in Markers}
    \cup {sc \o <<":", "/", "/", "h", "/", "b", "o", "t">> \o t \o tail :
            sc \in Schemes, tail \in Tails}

\* str.lower on one character of the alphabet in use.
LowerChar(c) ==
    CASE c = "A" -> "a"
      [] c = "B" -> "b"
      [] c = "O" -> "o"
      [] c = "T" -> "t"
      [] OTHER -> c

lower(str) == [i \in 1..Len(str) |-> LowerChar(str[i])]

startswith(str, prefix) ==
    Len(str) >= Len(prefix) /\ SubSeq(str, 1, Len(prefix)) = prefix

\* str[n:]
DropFirst(str, n) == SubSeq(str, n + 1, Len(str))

\* The first position from `from` on of a character of cs, or Len(str) + 1.
FirstOf(str, cs, from) ==
    IF \E i \in from..Len(str) : str[i] \in cs
    THEN CHOOSE i \in from..Len(str) :
            str[i] \in cs /\ \A j \in from..(i - 1) : str[j] \notin cs
    ELSE Len(str) + 1

SchemeChars ==
    {"a", "b", "h", "m", "o", "p", "s", "t", "A", "B", "O", "T", "1", "2"}

\* urllib.parse.urlparse(url).path: the scheme up to the first ":", the
\* network location after "//" up to the next "/", "?" or "#", and then the
\* path up to "?" or "#".
urlpath(url) ==
    LET colon == FirstOf(url, {":"}, 1)
        scheme == colon > 1 /\ colon =< Len(url)
                    /\ \A i \in 1..(colon - 1) : url[i] \in SchemeChars
        rest == IF scheme THEN DropFirst(url, colon) ELSE url
        local == IF startswith(rest, <<"/", "/">>)
                 THEN DropFirst(rest, FirstOf(rest, {"/", "?", "#"}, 3) - 1)
                 ELSE rest
    IN  SubSeq(local, 1, FirstOf(local, {"?", "#"}, 1) - 1)

\* app.py:76-91
get_bot_token(TG) ==
    LET token == TG
        path == urlpath(token)
        extracted == IF startswith(token, <<"h", "t", "t", "p">>)
                        /\ startswith(lower(path), <<"/", "b", "o", "t">>)
                     THEN DropFirst(path, 4)
                     ELSE token
    IN  IF startswith(lower(extracted), <<"b", "o", "t">>)
        THEN DropFirst(extracted, 3)
        ELSE extracted

\* notify_signals.py:24-45
signals_get_bot_token(RAW_BOT_TOKEN) ==
    LET token == RAW_BOT_TOKEN
        fromUrl == IF startswith(token, <<"h", "t", "t", "p">>)
                   THEN LET path == urlpath(token)
                        IN  IF startswith(lower(path), <<"/", "b", "o", "t">>)
                            THEN DropFirst(path, 4)
                            ELSE token
                   ELSE token
    IN  IF startswith(lower(fromUrl), <<"b", "o", "t">>)
        THEN DropFirst(fromUrl, 3)
        ELSE fromUrl

\* The process starts with the credential of some token in some shape.
TokenInit ==
    /\ HandlerInit
    /\ ScriptIdle
    /\ NoneComputed
    /\ \E t \in BareTokens :
        /\ bare = t
        /\ TG_BOT_TOKEN \in Credentials(t)

\* A Messaging Gateway helper of app.py asks for the token (app.py:96, 116, 134).
AppGetBotToken ==
    /\ "app" \notin computed
    /\ app_token' = get_bot_token(TG_BOT_TOKEN)
    /\ computed' = computed \cup {"app"}
    /\ UNCHANGED <<processed_events, pc, sigok, event, tg, calls, resp, verified,
                   returned, sink, script, TG_BOT_TOKEN, bare, signals_token>>

\* send_signal asks for the token (notify_signals.py:63).
SignalsGetBotToken ==
    /\ "signals" \notin computed
    /\ signals_token' = signals_get_bot_token(TG_BOT_TOKEN)
    /\ computed' = computed \cup {"signals"}
    /\ UNCHANGED <<processed_events, pc, sigok, event, tg, calls, resp, verified,
                   returned, sink, script, TG_BOT_TOKEN, bare, app_token>>

TokenNext == AppGetBotToken \/ SignalsGetBotToken

TokenSpec == TokenInit /\ [][TokenNext]_vars

\* ------------------------------------------------------ notify_on_trade
\* What Freqtrade can put on STDIN, as far as the script can tell: text
\* that parses as JSON or not, a JSON object or another value, and the
\* members 'side' (absent, a string, or another value) and 'pair'.
Trades ==
    { t \in [json : BOOLEAN, object : BOOLEAN,
             side : {"absent", "string", "other"}, pair : BOOLEAN] :
        /\ (~t.json => ~t.object)
        /\ (~t.object => t.side = "absent" /\ ~t.pair) }

\* notify_on_trade.py:12 the script reads STDIN.
TradeRead ==
    /\ trade_pc = "idle"
    /\ trade' \in Trades
    /\ trade_pc' = "parse"
    /\ UNCHANGED <<exit_status, success_logged>>
    /\ UNCHANGED <<processed_events, pc, sigok, event, tg, calls, resp, verified,
                   returned, sink, cred>>

\* notify_on_trade.py:15-19 json.loads; JSONDecodeError ends in sys.exit(1),
\* which the `except Exception` of line 46 does not catch.
TradeParse ==
    /\ trade_pc = "parse"
    /\ IF trade.json
       THEN trade_pc' = "build" /\ UNCHANGED exit_status
       ELSE trade_pc' = "exited" /\ exit_status' = 1
    /\ UNCHANGED <<trade, success_logged>>
    /\ UNCHANGED <<processed_events, pc, sigok, event, tg, calls, resp, verified,
                   returned, sink, cred>>

\* notify_on_trade.py:22-36 the fields are read and the message is built:
\* .get on a value that is no object and .upper() on a side that is no
\* string raise AttributeError, which line 46 turns into sys.exit(3).
TradeBuild ==
    /\ trade_pc = "build"
    /\ IF trade.object /\ trade.side # "other"
       THEN trade_pc' = "send" /\ UNCHANGED exit_status
       ELSE trade_pc' = "exited" /\ exit_status' = 3
    /\ UNCHANGED <<trade, success_logged>>
    /\ UNCHANGED <<processed_events, pc, sigok, event, tg, calls, resp, verified,
                   returned, sink, cred>>

\* notify_on_trade.py:40 send_signal(message) is entered; the message is
\* never empty.
TradeSend ==
    /\ trade_pc = "send"
    /\ sink_pc = "idle"
    /\ trade_pc' = "in_send_signal"
    /\ sink_pc' = "post"
    /\ attempt' = 0
    /\ posts' = 0
    /\ reply' = NoReply
    /\ sent' = FALSE
    /\ UNCHANGED <<trade, exit_status, success_logged>>
    /\ UNCHANGED <<processed_events, pc, sigok, event, tg, calls, resp, verified,
                   returned, cred>>

\* notify_on_trade.py:40-44 and the end of the script: send_signal has
\* returned; its value is dropped, success is logged and the script ends
\* with status 0.  sys.exit(2) stands in the except of line 42, which only
\* an exception out of send_signal reaches, and send_signal raises none.
TradeExit ==
    /\ trade_pc = "in_send_signal"
    /\ sink_pc = "returned"
    /\ success_logged' = TRUE
    /\ exit_status' = 0
    /\ trade_pc' = "exited"
    /\ UNCHANGED trade
    /\ UNCHANGED <<processed_events, pc, sigok, event, tg, calls, resp, verified,
                   returned, sink, cred>>

TradeNext ==
    \/ TradeRead
    \/ TradeParse
    \/ TradeBuild
    \/ TradeSend
    \/ SignalAttempt
    \/ TradeExit

TradeSpec == Init /\ [][TradeNext]_vars

\* One request thread followed through send_signal: the handler as in Spec,
\* with every call of send_signal run through its loop.
Solo == "w1"

\* What the thread does once a request is in: every step but Verify.
SoloStep ==
    \/ Check(Solo)
    \/ Mark(Solo)
    \/ SignalEnter(Solo)
    \/ SignalAttempt
    \/ EventSignalReturn(Solo)
    \/ CheckoutInvite(Solo)
    \/ CheckoutDm(Solo)
    \/ CheckoutInvoiceList(Solo)
    \/ CheckoutInvoiceModify(Solo)
    \/ PaidCustomerLookup(Solo)
    \/ PaidSubscriptionLookup(Solo)
    \/ PaidInvite(Solo)
    \/ PaidDm(Solo)
    \/ PaidErrorSignalReturn(Solo)
    \/ RevokeNotice(Solo)
    \/ RevokeBan(Solo)
    \/ RevokeUnban(Solo)
    \/ RevokeConfirm(Solo)
    \/ RevokeSignalReturn(Solo)
    \/ RevokeErrorSignalReturn(Solo)
    \/ Finish(Solo)

SoloNext == Verify(Solo) \/ SoloStep

SoloSpec == Init /\ [][SoloNext]_vars

\* Every call the thread makes returns or fails, and the thread is
\* scheduled: a step of a request in progress is eventually taken.  Whether
\* another request arrives (Verify) is up to Stripe.
LiveSpec == SoloSpec /\ WF_vars(SoloStep)

\* ===================================================================
\* Properties
\* ===================================================================
Valid(w) == pc[w] # "idle" /\ sigok[w]
Rejected(w) == pc[w] # "idle" /\ ~sigok[w]
Responded(w) == pc[w] = "responded"
\* already_processed returned False for the request of w.
JudgedNew(w) == Valid(w) /\ (pc[w] = "signal" \/ Len(calls[w]) > 0)
\* The request of w was answered as a duplicate.
Skipped(w) == Valid(w) /\ Responded(w) /\ calls[w] = <<>>
HasCall(w, op) == \E i \in 1..Len(calls[w]) : calls[w][i].op = op
RevokingEvent(e) ==
    /\ e.kind \in {"invoice.payment_failed", "customer.subscription.updated",
                   "customer.subscription.deleted"}
    /\ Revokes(e)

\* C1 (idempotence): a signature-valid event delivered twice has its
\* Messaging Gateway side effects performed by one delivery only, and
\* every delivery of a signature-valid event is answered 200.
C1_Idempotence ==
    /\ \A w \in Workers : Valid(w) /\ Responded(w) => resp[w] = 200
    /\ \A w, v \in Workers :
        (w # v /\ Valid(w) /\ Valid(v) /\ event[w].id = event[v].id)
            => (GatewayCalls(w) = {} \/ GatewayCalls(v) = {})

\* C2 (concurrent check-and-mark): two requests carrying the same event id
\* never both get False from already_processed.
C2_AtMostOneJudgedNew ==
    \A w, v \in Workers :
        (w # v /\ event[w].id = event[v].id) => ~(JudgedNew(w) /\ JudgedNew(v))

\* C3 (response contract): every POST is answered 200 or 400, and 400
\* exactly when signature verification failed.
C3_ResponseContract ==
    \A w \in Workers :
        Responded(w) => /\ resp[w] \in {200, 400}
                        /\ (resp[w] = 400 <=> ~sigok[w])

\* C4 (a failed message does not stop the revocation): once a dispatched
\* revoking event with an identity in its metadata is answered, the ban of
\* that identity has been requested, whether the notice was delivered or not.
C4_RevokeDespiteFailedNotice ==
    \A w \in Workers :
        (JudgedNew(w) /\ Responded(w) /\ RevokingEvent(event[w]) /\ event[w].meta # None)
            => \E i \in 1..Len(calls[w]) :
                  calls[w][i].op = "ban" /\ calls[w][i].id = event[w].meta

\* C5 (signature gate): a request whose signature does not verify is
\* answered 400 at once: it is never past verification, and no outbound
\* call of any kind is made for it.
C5_SignatureGate ==
    \A w \in Workers :
        Rejected(w) => /\ Responded(w)
                       /\ resp[w] = 400
                       /\ calls[w] = <<>>

\* C5 witness: a rejected request that declares an actionable kind and
\* carries an identity.
C5_Witness ==
    \E w \in Workers :
        /\ Rejected(w) /\ resp[w] = 400
        /\ event[w].kind = "checkout.session.completed"
        /\ event[w].meta # None

\* C6 (rejection leaves the ledger alone): the step that answers 400 does
\* not change processed_events, and processed_events only ever holds ids
\* of events whose signature verified; so an id known only from rejected
\* requests is still judged unprocessed.
C6_RejectionKeepsLedger ==
    /\ [](processed_events \subseteq verified)
    /\ [][\A w \in Workers :
            (resp[w] # 400 /\ resp'[w] = 400) => processed_events' = processed_events]_vars

\* C6 witness: a request was rejected for an id, the id is not in the
\* ledger afterwards, and a signature-valid request with the same id has
\* been judged unprocessed and is being dispatched.
C6_Witness ==
    \E w, v \in Workers :
        /\ Rejected(w) /\ Responded(w)
        /\ JudgedNew(v) /\ event[v].id = event[w].id
        /\ pc[v] = "signal"

\* C7 (partial failure containment): a granting event whose invite creation
\* failed is in the ledger from then on, the ledger never loses an id, and
\* a request with the same id that reaches the dedup check after that
\* request was answered is answered 200 with no call at all.
C7_FailedInviteStaysProcessed ==
    /\ [](\A w \in Workers : (Valid(w) /\ InviteFailed(w)) => event[w].id \in processed_events)
    /\ [][processed_events \subseteq processed_events']_vars
    /\ [][\A w, v \in Workers :
            ( /\ v # w
              /\ Valid(v) /\ Responded(v) /\ InviteFailed(v)
              /\ Valid(w) /\ pc[w] = "dedupe" /\ pc'[w] # "dedupe"
              /\ event[w].id = event[v].id )
            => (pc'[w] = "responded" /\ resp'[w] = 200 /\ calls'[w] = <<>>)]_vars

\* C7 witness: a checkout request answered after a failed invite creation,
\* and a request with the same id skipped with 200.
C7_Witness ==
    \E w, v \in Workers :
        /\ v # w
        /\ Valid(v) /\ Responded(v) /\ InviteFailed(v) /\ event[v].kind \in GrantKinds
        /\ event[w].id = event[v].id
        /\ Skipped(w) /\ resp[w] = 200

\* The identity a lookup of kind op returned to w (None if it was not made,
\* failed or found none).
Found(w, op) ==
    IF \E i \in 1..Len(calls[w]) : calls[w][i].op = op /\ calls[w][i].ok /\ calls[w][i].id # None
    THEN (CHOOSE c \in {calls[w][i] : i \in 1..Len(calls[w])} :
            c.op = op /\ c.ok /\ c.id # None).id
    ELSE None

\* No identity at any fallback stage.
NoIdentity(w) ==
    /\ event[w].meta = None
    /\ Found(w, "customer_retrieve") = None
    /\ Found(w, "subscription_retrieve") = None

C9_UnmatchedKindNoop ==
    \A w \in Workers :
        (Valid(w) /\ event[w].kind \notin HandledKinds)
            => /\ GatewayCalls(w) = {}
               /\ (Responded(w) => resp[w] = 200)

\* C9 witness: a dispatched charge.refunded event that carries an identity.
C9_Witness ==
    \E w \in Workers :
        /\ JudgedNew(w) /\ Responded(w) /\ resp[w] = 200
        /\ event[w].kind = "charge.refunded" /\ event[w].meta # None
        /\ Len(calls[w]) = 1

\* The identity the fallback order gives for the request of w.
Resolved(w) ==
    IF event[w].meta # None THEN event[w].meta
    ELSE IF Found(w, "customer_retrieve") # None THEN Found(w, "customer_retrieve")
    ELSE Found(w, "subscription_retrieve")

\* The invoice.paid request of w is past identity resolution.
ResolutionDone(w) ==
    /\ JudgedNew(w) /\ event[w].kind = "invoice.paid"
    /\ pc[w] \in {"ip_invite", "ip_dm", "ip_err", "responded"}

\* C10 (identity fallback order for invoice.paid): after resolution the
\* identity is the invoice's, else the one a successful customer lookup
\* returned, else the one a successful subscription lookup returned, else
\* absent; every message goes to it; and a customer lookup that failed or
\* found nothing is followed by the subscription lookup when the invoice
\* names a subscription.
C10_FallbackOrder ==
    \A w \in Workers :
        ResolutionDone(w) =>
            /\ tg[w] = Resolved(w)
            /\ \A i \in 1..Len(calls[w]) :
                  calls[w][i].op = "send_dm" => calls[w][i].id = Resolved(w)
            /\ (event[w].meta = None /\ event[w].customer) => HasCall(w, "customer_retrieve")
            /\ (event[w].meta = None /\ Found(w, "customer_retrieve") = None /\ event[w].sub)
                  => HasCall(w, "subscription_retrieve")

\* C10 witness: the customer lookup failed, the subscription lookup gave
\* the identity and the renewal invite was sent to it.
C10_Witness ==
    \E w \in Workers :
        /\ ResolutionDone(w) /\ event[w].meta = None
        /\ \E i \in 1..Len(calls[w]) :
              calls[w][i].op = "customer_retrieve" /\ ~calls[w][i].ok
        /\ Found(w, "subscription_retrieve") # None
        /\ \E i \in 1..Len(calls[w]) :
              calls[w][i].op = "send_dm" /\ calls[w][i].id = Found(w, "subscription_retrieve")

\* The positions in calls[w] of the calls of kind op.
Made(w, op) == CallsOf(w, {op})

\* C11 (one notice, one revocation): once a dispatched revoking event with
\* an identity in its metadata is answered, exactly one send_dm and exactly
\* one removal (banChatMember is its first request) were made, both for
\* that identity, and the answer is 200 whatever the removal returned.
C11_OneNoticeOneRevoke ==
    \A w \in Workers :
        (JudgedNew(w) /\ Responded(w) /\ RevokingEvent(event[w]) /\ event[w].meta # None)
            => /\ Cardinality(Made(w, "send_dm")) = 1
               /\ Cardinality(Made(w, "ban")) = 1
               /\ \A i \in Made(w, "send_dm") \cup Made(w, "ban") :
                     calls[w][i].id = event[w].meta
               /\ resp[w] = 200

\* The request of w is a dispatched granting event.
Granting(w) == JudgedNew(w) /\ event[w].kind \in GrantKinds \cup {"invoice.paid"}

AlreadyProcessedReturns(w, v) ==
    IF v THEN pc[w] = "dedupe" /\ pc'[w] = "responded"
         ELSE pc[w] = "mark" /\ pc'[w] = "signal"

\* C13 (ledger contract, calls in sequence): a call of already_processed
\* with x returns True exactly when a call with x returned before it; when
\* it returns, x is in processed_events and no other id has entered or left
\* the set; and no id ever leaves the set.
C13_LedgerContract ==
    /\ [][\A w \in Workers : \A v \in BOOLEAN :
            AlreadyProcessedReturns(w, v) =>
                /\ (v <=> event[w].id \in returned)
                /\ event[w].id \in processed_events'
                /\ \A y \in EventIds \ {event[w].id} :
                      (y \in processed_events') <=> (y \in processed_events)]_vars
    /\ [][\A y \in EventIds : y \in processed_events => y \in processed_events']_vars

\* C13 witness: a call has returned True for an id while the other id,
\* recorded before, is still in the set.
C13_Witness ==
    /\ Skipped(Solo)
    /\ event[Solo].id \in returned
    /\ processed_events = EventIds

\* C14 (temporary ban): once remove_from_telegram_group has returned after
\* a ban that Telegram applied, the ban has been lifted again by a
\* successful unbanChatMember for the same identity.
C14_BanIsReversed ==
    \A w \in Workers : \A i \in Made(w, "ban") :
        (calls[w][i].ok /\ pc[w] # "rv_unban")
            => \E j \in Made(w, "unban") :
                  j > i /\ calls[w][j].ok /\ calls[w][j].id = calls[w][i].id

\* The pipeline stage of a handler line: received, verified, deduplicated,
\* dispatching, responded.
Stage(p) ==
    CASE p = "idle" -> 0
      [] p \in {"dedupe", "mark"} -> 1
      [] p = "signal" -> 2
      [] p = "responded" -> 4
      [] OTHER -> 3

\* C15 (pipeline ordering): a request is past verification only if its
\* signature verified; it has made an outbound call only if it is past the
\* ledger and its id is in the ledger; the ledger grows only by the id of a
\* verified request standing at the mark; the stages are passed in order,
\* none twice and none skipped but by answering; and an answered request
\* makes no further call.
C15_PipelineOrder ==
    /\ [](\A w \in Workers :
            /\ Stage(pc[w]) \in {1, 2, 3} => sigok[w]
            /\ calls[w] # <<>> =>
                  /\ sigok[w]
                  /\ Stage(pc[w]) \in {3, 4}
                  /\ event[w].id \in processed_events)
    /\ [][processed_events' # processed_events =>
            \E w \in Workers :
                /\ sigok[w] /\ pc[w] = "mark"
                /\ processed_events' = processed_events \cup {event[w].id}]_vars
    /\ [][\A w \in Workers :
            /\ (pc[w] = "responded" /\ pc'[w] = "responded") => calls'[w] = calls[w]
            /\ pc[w] # "responded" =>
                  /\ Stage(pc'[w]) >= Stage(pc[w])
                  /\ (Stage(pc'[w]) =< Stage(pc[w]) + 1 \/ pc'[w] = "responded")
                  /\ \A i \in 1..Len(calls[w]) :
                        i =< Len(calls'[w]) /\ calls'[w][i] = calls[w][i]]_vars

\* C15 witness: an answered invoice.paid request that made a lookup, the
\* invite call, the message and the admin notification, its id in the
\* ledger.
C15_Witness ==
    \E w \in Workers :
        /\ Responded(w) /\ sigok[w] /\ resp[w] = 200
        /\ event[w].id \in processed_events
        /\ Len(calls[w]) >= 4
        /\ calls[w][1].op = "send_signal"
        /\ HasCall(w, "customer_retrieve")
        /\ HasCall(w, "create_invite")
        /\ HasCall(w, "send_dm")

\* The request of w carries a verified customer.subscription.updated event.
Updated(w) == Valid(w) /\ event[w].kind = "customer.subscription.updated"

\* C16 (subscription updated): such an event leads to a Messaging Gateway
\* call only when its status is canceled or unpaid and its metadata carries
\* an identity, and then the first call is the end-of-subscription message
\* to that identity and any removal is of that identity; for every other
\* status no Messaging Gateway call is made and the answer is 200.
C16_UpdatedOnlyWhenEnded ==
    \A w \in Workers :
        Updated(w) =>
            /\ GatewayCalls(w) # {} =>
                  /\ event[w].status \in RevokeStatuses
                  /\ event[w].meta # None
                  /\ \A i \in GatewayCalls(w) :
                        /\ calls[w][i].id = event[w].meta
                        /\ (\A j \in GatewayCalls(w) : i =< j)
                              => /\ calls[w][i].op = "send_dm"
                                 /\ calls[w][i].text = "subscription_ended"
            /\ event[w].status \notin RevokeStatuses =>
                  /\ GatewayCalls(w) = {}
                  /\ (Responded(w) => resp[w] = 200)
            /\ (JudgedNew(w) /\ Responded(w) /\ event[w].meta # None
                    /\ event[w].status \in RevokeStatuses)
                  => HasCall(w, "send_dm")

\* C16 witness: an active subscription's update with an identity answered
\* 200 without a call, next to a canceled one whose user was removed.
C16_Witness ==
    \E w, v \in Workers :
        /\ Updated(w) /\ JudgedNew(w) /\ Responded(w) /\ resp[w] = 200
        /\ event[w].status = "active" /\ event[w].meta # None
        /\ Updated(v) /\ event[v].status = "canceled"
        /\ \E i \in Made(v, "ban") : calls[v][i].ok

\* Where the handler goes on from the send_signal line w stands on.
AfterSignal(w) == IF pc[w] = "signal" THEN Entry(event[w]) ELSE "end"

\* The step takes w off a send_signal line.
SignalStep(w) == pc[w] \in SignalLines /\ pc'[w] # pc[w]

\* C17 (sink failures are swallowed): send_signal comes back with a boolean
\* to the line that called it, whatever its requests came to; the handler
\* then goes where that line leads whether the boolean is True or False,
\* adding the call and nothing else to what it has done; and a request is
\* answered other than 200 only after a failed send_dm, never after a
\* failed send_signal.
C17_SinkFailuresSwallowed ==
    /\ [](/\ sent \in BOOLEAN
          /\ sink_pc = "returned" => (pc[Solo] \in SignalLines /\ resp[Solo] = 0)
          /\ (Valid(Solo) /\ Responded(Solo) /\ resp[Solo] # 200) =>
                /\ calls[Solo] # <<>>
                /\ calls[Solo][Len(calls[Solo])].op = "send_dm"
                /\ ~calls[Solo][Len(calls[Solo])].ok)
    /\ [][SignalStep(Solo) =>
            /\ calls'[Solo] = Append(calls[Solo], Reported(Solo))
            /\ IF AfterSignal(Solo) = "end"
               THEN pc'[Solo] = "responded" /\ resp'[Solo] = 200
               ELSE pc'[Solo] = AfterSignal(Solo) /\ resp'[Solo] = resp[Solo]]_vars

\* C17 witness: the event notification failed, and the checkout went on to
\* the invite and the message and was answered 200.
C17_Witness ==
    /\ Responded(Solo) /\ resp[Solo] = 200
    /\ Len(calls[Solo]) >= 3
    /\ calls[Solo][1].op = "send_signal" /\ ~calls[Solo][1].ok
    /\ calls[Solo][2].op = "create_invite" /\ calls[Solo][2].ok
    /\ calls[Solo][3].op = "send_dm" /\ calls[Solo][3].ok

\* C18 (bounded retry): a call of send_signal makes at most max_retries
\* requests; a request answered with a success status ends it with True, a
\* client error other than 429 ends it with False, anything else (429, 5xx,
\* Timeout, RequestException) is followed by another request until
\* max_retries were made, and then it ends with False; no request follows
\* the return; and a call in its loop always comes to return.
C18_BoundedRetry ==
    /\ [](/\ posts =< max_retries
          /\ attempt < max_retries
          /\ (sink_pc = "returned" /\ posts > 0) =>
                /\ sent <=> Delivered(reply)
                /\ ~sent => (NoRetry(reply) \/ posts = max_retries))
    /\ [][(sink_pc = "post" /\ sink' # sink) =>
            /\ posts' = posts + 1
            /\ Delivered(reply') => (sink_pc' = "returned" /\ sent')
            /\ NoRetry(reply') => (sink_pc' = "returned" /\ ~sent')
            /\ (~Delivered(reply') /\ ~NoRetry(reply')) =>
                  IF posts' < max_retries
                  THEN sink_pc' = "post"
                  ELSE sink_pc' = "returned" /\ ~sent']_vars
    /\ [][sink_pc = "returned" => (posts' = posts \/ sink_pc' = "idle")]_vars
    /\ (sink_pc = "post") ~> (sink_pc = "returned")

\* C18 witness: the call gave up after max_retries requests, the last one
\* timed out.
C18_Witness ==
    /\ sink_pc = "returned" /\ ~sent
    /\ posts = max_retries
    /\ reply.exc = "Timeout"

\* C19 (dual-layer check in the sink): send_signal returns True only for a
\* response with a success status whose body says "ok": true.
C19_SinkChecksBody ==
    (sink_pc = "returned" /\ sent) => (Delivered(reply) /\ reply.ok)

\* C20 (every request is answered): a request that has come in is
\* eventually answered, whatever its calls come to.
C20_EventuallyResponded ==
    (pc[Solo] # "idle") ~> (pc[Solo] = "responded")

\* C20 witness: a revoking request answered after both of its admin
\* notifications failed and the confirmation could not be sent.
C20_Witness ==
    /\ Responded(Solo) /\ resp[Solo] = 200
    /\ Len(calls[Solo]) >= 6
    /\ \E i, j \in Made(Solo, "send_signal") :
          i # j /\ ~calls[Solo][i].ok /\ ~calls[Solo][j].ok
    /\ \E i \in Made(Solo, "send_dm") : ~calls[Solo][i].ok

\* The positions in calls[w] of the send_signal calls with the text t.
Signalled(w, t) == {i \in Made(w, "send_signal") : calls[w][i].text = t}

RemoveReturnedTrue(w) ==
    /\ \E i \in Made(w, "ban") : calls[w][i].ok
    /\ \E j \in Made(w, "unban") : calls[w][j].text # "raised"

\* C23 (confirmation exactly on removal): once a dispatched revoking event
\* is answered, the removal confirmation was sent to the user and the
\* 'removed from group' notification to the admin channel exactly when
\* remove_from_telegram_group returned True, and without that no error
\* notification was sent either.
C23_ConfirmIffRemoved ==
    \A w \in Workers :
        (JudgedNew(w) /\ Responded(w) /\ RevokingEvent(event[w])) =>
            /\ RemoveReturnedTrue(w) <=>
                  (\E i \in Made(w, "send_dm") : calls[w][i].text = "removed")
            /\ RemoveReturnedTrue(w) <=> Signalled(w, "removed") # {}
            /\ ~RemoveReturnedTrue(w) => Signalled(w, "remove_error") = {}

\* C24 (lookups only when needed): a customer retrieval is made only for
\* an invoice.paid event without identity in its metadata that names a
\* customer; a subscription retrieval only for such an event that names a
\* subscription, after the customer retrieval if there was one, and only if
\* that gave no identity; each at most once.
C24_LookupsOnlyWhenNeeded ==
    \A w \in Workers :
        /\ Cardinality(Made(w, "customer_retrieve")) =< 1
        /\ Cardinality(Made(w, "subscription_retrieve")) =< 1
        /\ Made(w, "customer_retrieve") # {} =>
              /\ Valid(w) /\ event[w].kind = "invoice.paid"
              /\ event[w].meta = None
              /\ event[w].customer
        /\ Made(w, "subscription_retrieve") # {} =>
              /\ Valid(w) /\ event[w].kind = "invoice.paid"
              /\ event[w].meta = None
              /\ event[w].sub
              /\ Found(w, "customer_retrieve") = None
              /\ \A i \in Made(w, "customer_retrieve"), j \in Made(w, "subscription_retrieve") :
                    i < j

\* C24 witness: the customer retrieval gave the identity, and the invoice's
\* subscription was not retrieved although the invoice names one.
C24_Witness ==
    \E w \in Workers :
        /\ ResolutionDone(w) /\ Responded(w)
        /\ event[w].meta = None /\ event[w].sub
        /\ Found(w, "customer_retrieve") # None
        /\ Made(w, "subscription_retrieve") = {}
        /\ HasCall(w, "send_dm")

\* C21 (credential normalisation): whatever shape the credential of a bare
\* token is configured in (bare, API URL with or without a method segment,
\* marker in front), each copy of get_bot_token returns the bare token, and
\* the two copies return the same.
C21_TokenNormalised ==
    /\ "app" \in computed => app_token = bare
    /\ "signals" \in computed => signals_token = bare
    /\ computed = {"app", "signals"} => app_token = signals_token

\* C25 (exit status of notify_on_trade): the script ends with 1 for text
\* that is no JSON, with 3 for any other unexpected error, with 2 when
\* send_signal did not get the message through, and logs success and ends
\* with 0 only when send_signal did.
C25_ExitStatusTellsOutcome ==
    trade_pc = "exited" =>
        /\ ~trade.json => exit_status = 1
        /\ (trade.json /\ (~trade.object \/ trade.side = "other")) => exit_status = 3
        /\ (sink_pc = "returned" /\ ~sent) => exit_status = 2
        /\ (exit_status = 0 \/ success_logged) => (sink_pc = "returned" /\ sent)

====
